---- MODULE Spec2Model ----
(***************************************************************************)
(* A model of cherry-pick-check: the rate-limited paginating GitHub client *)
(* (github_client.py), the cherry-pick reference matcher and the detection *)
(* orchestrator (cherry_pick_detector.py) and the release-branch selector  *)
(* (branch_detector.py).                                                   *)
(*                                                                         *)
(* Strings that the program inspects character by character (PR bodies,    *)
(* branch names) are sequences of one-character strings.  An absent header *)
(* or an absent integer is Absent.                                         *)
(***************************************************************************)
EXTENDS Integers, Sequences, FiniteSets, TLC

VARIABLES
    \* ---- GitHubClient: one running fetch (github_client.py)
    op,           \* the client method that is running
    auto_wait,    \* GitHubClient.auto_wait
    server_total, \* number of items the server holds for the running query
    page,         \* local `page` of _search_issues / _paginate
    cpc,          \* position in the method's `while True` loop
    response,     \* local `response`: the last response received
    time_now,     \* the value int(time.time()) has while `response` is handled
    yielded,      \* the items the generator has yielded so far
    requests,     \* every request issued by self.client.get, in order
    sleep_call,   \* argument of the time.sleep call of the last handling step (0: none)
    error,        \* the exception that left the method, NoError if none
    returned,     \* return value of get_pr_details
    \* ---- _is_cherry_pick_reference: one call (cherry_pick_detector.py)
    body,             \* argument `body`
    source_pr_number, \* argument `source_pr_number`
    mpc,              \* "call" before the call, "returned" after it
    is_reference,     \* the returned boolean
    \* ---- detect_release_branches: one call (branch_detector.py)
    all_branches,     \* argument `all_branches`
    exclude_branch,   \* argument `exclude_branch` (NoBranch: None)
    major_only,       \* argument `major_only`
    limit,            \* argument `limit` (Absent: None)
    bpc,              \* "call" before the call, "returned" after it
    release_out,      \* the returned list
    \* ---- CherryPickDetector.detect_cherry_picks: one run (cherry_pick_detector.py, cli.py)
    source_prs,       \* argument `source_prs`, each PR by its number
    target_branches,  \* argument `target_branches`
    dpc,              \* position in detect_cherry_picks / _detect_for_pr / cli
    pr_index,         \* index in source_prs of the loop variable `pr`
    related_prs,      \* the items `for pr_data in related_prs` has still to visit
    branch_to_cp,     \* local dict `branch_to_cp` of _detect_for_pr
    results,          \* local list `results` of detect_cherry_picks
    visited,          \* the hits of the current source PR visited so far, each with
                      \* the detail fetched for it (NoDetail: none)
    detect_returned,  \* the list detect_cherry_picks returned
    client_error,     \* the exception the client call of the last step raised
    cli_printed,      \* the list cli handed to print_results_table
    exit_code,        \* the code of cli's SystemExit (Absent: none)
    \* ---- filter_branches: one call (branch_detector.py)
    repo_branches,    \* argument `all_branches`: the names of the repository
    target,           \* argument `target_branches`: the requested names (cli's `target`)
    fpc,              \* "call" before the call, "returned" after it
    filtered,         \* the returned list
    \* ---- _parse_pr_info: one call (cherry_pick_detector.py)
    parse_data,       \* argument `pr_data`: the fetched record
    parse_base,       \* argument `base_branch` ("": None)
    ppc,              \* "call" before the call, "returned" after it
    parsed            \* the PRInfo built

clientVars == <<op, auto_wait, server_total, page, cpc, response, time_now,
                yielded, requests, sleep_call, error, returned>>

matcherVars == <<body, source_pr_number, mpc, is_reference>>

branchVars == <<all_branches, exclude_branch, major_only, limit, bpc, release_out>>

detectVars ==
    <<source_prs, target_branches, dpc, pr_index, related_prs, branch_to_cp,
      results, visited, detect_returned, client_error, cli_printed, exit_code>>

filterVars == <<repo_branches, target, fpc, filtered>>

parseVars == <<parse_data, parse_base, ppc, parsed>>

vars == <<clientVars, matcherVars, branchVars, detectVars, filterVars, parseVars>>

----------------------------------------------------------------------------
(* Bounds of the model. *)

\* requests one fetch may issue before the model stops following it
MaxRequests == 4
\* the server holds at most MaxPages full pages plus a partial one
MaxPages == 2

(* Program constants. *)
PerPage == 100
MaxWaitSeconds == 120
LowRemaining == 5
ThrottleSleep == 2

----------------------------------------------------------------------------
(* Values. *)

Absent == -1

Max(a, b) == IF a >= b THEN a ELSE b
Min(a, b) == IF a <= b THEN a ELSE b

NoError == [type |-> "none", resets_at |-> <<>>, wait |-> 0]

\* datetime.fromtimestamp(reset_time).strftime('%H:%M:%S'), in UTC
strftime_HMS(ts) == <<(ts \div 3600) % 24, (ts \div 60) % 60, ts % 60>>

\* RateLimitError with the reset time in its message (lines 216-220)
RateLimitErrorAt(reset_time, wait_seconds) ==
    [type |-> "RateLimitError", resets_at |-> strftime_HMS(reset_time),
     wait |-> wait_seconds]

\* RateLimitError("GitHub API rate limit exceeded.") (line 222)
RateLimitErrorPlain == [type |-> "RateLimitError", resets_at |-> <<>>, wait |-> 0]

HTTPStatusError == [type |-> "HTTPStatusError", resets_at |-> <<>>, wait |-> 0]

\* the record returned by GET /repos/{repo}/pulls/{n}: number, base.ref, state,
\* merged_at and pull_request.merged_at (Absent when null or missing)
NoDetail ==
    [number |-> 0, base |-> "", state |-> <<>>, merged_at |-> Absent,
     pull_request_merged_at |-> Absent]

NoResponse ==
    [remaining |-> Absent, reset |-> Absent, status |-> 0, items |-> <<>>,
     detail |-> NoDetail]

\* httpx Response.raise_for_status raises unless the status is 2xx
RaisesForStatus(status) == ~(200 <= status /\ status <= 299)

----------------------------------------------------------------------------
(* GitHubClient._handle_rate_limit: the decision taken on one response when  *)
(* the clock reads t.  ret is the returned boolean, or "raise"; sleep is the *)
(* argument of the time.sleep call it makes (0: none).                       *)

handle_rate_limit_no_sleep(resp, t, aw) ==
    LET remaining == resp.remaining
        reset_timestamp == resp.reset
    IN  IF remaining # Absent /\ remaining = 0
        THEN IF reset_timestamp # Absent
             THEN LET wait_seconds == Max(0, reset_timestamp - t) + 1
                  IN  IF aw /\ wait_seconds <= MaxWaitSeconds
                      THEN [ret |-> "True", sleep |-> 0, raised |-> NoError]
                      ELSE [ret |-> "raise", sleep |-> 0,
                            raised |-> RateLimitErrorAt(reset_timestamp, wait_seconds)]
             ELSE [ret |-> "raise", sleep |-> 0, raised |-> RateLimitErrorPlain]
        ELSE [ret |-> "False", sleep |-> 0, raised |-> NoError]

handle_rate_limit_always_wait(resp, t, aw) ==
    LET remaining == resp.remaining
        reset_timestamp == resp.reset
    IN  IF remaining # Absent /\ remaining = 0
        THEN IF reset_timestamp # Absent
             THEN LET wait_seconds == Max(0, reset_timestamp - t) + 1
                  IN  [ret |-> "True", sleep |-> wait_seconds, raised |-> NoError]
             ELSE [ret |-> "raise", sleep |-> 0, raised |-> RateLimitErrorPlain]
        ELSE IF remaining # Absent /\ remaining < LowRemaining
             THEN [ret |-> "False", sleep |-> ThrottleSleep, raised |-> NoError]
             ELSE [ret |-> "False", sleep |-> 0, raised |-> NoError]

handle_rate_limit_exclusive_bound(resp, t, aw) ==
    LET remaining == resp.remaining
        reset_timestamp == resp.reset
    IN  IF remaining # Absent /\ remaining = 0
        THEN IF reset_timestamp # Absent
             THEN LET reset_time == reset_timestamp
                      wait_seconds == Max(0, reset_time - t) + 1
                  IN  IF aw /\ wait_seconds < MaxWaitSeconds
                      THEN [ret |-> "True", sleep |-> wait_seconds, raised |-> NoError]
                      ELSE [ret |-> "raise", sleep |-> 0,
                            raised |-> RateLimitErrorAt(reset_time, wait_seconds)]
             ELSE [ret |-> "raise", sleep |-> 0, raised |-> RateLimitErrorPlain]
        ELSE IF remaining # Absent /\ remaining < LowRemaining
             THEN [ret |-> "False", sleep |-> ThrottleSleep, raised |-> NoError]
             ELSE [ret |-> "False", sleep |-> 0, raised |-> NoError]

handle_rate_limit_throttle_retries(resp, t, aw) ==
    LET remaining == resp.remaining
        reset_timestamp == resp.reset
    IN  IF remaining # Absent /\ remaining = 0
        THEN IF reset_timestamp # Absent
             THEN LET reset_time == reset_timestamp
                      wait_seconds == Max(0, reset_time - t) + 1
                  IN  IF aw /\ wait_seconds <= MaxWaitSeconds
                      THEN [ret |-> "True", sleep |-> wait_seconds, raised |-> NoError]
                      ELSE [ret |-> "raise", sleep |-> 0,
                            raised |-> RateLimitErrorAt(reset_time, wait_seconds)]
             ELSE [ret |-> "raise", sleep |-> 0, raised |-> RateLimitErrorPlain]
        ELSE IF remaining # Absent /\ remaining < LowRemaining
             THEN [ret |-> "True", sleep |-> ThrottleSleep, raised |-> NoError]
             ELSE [ret |-> "False", sleep |-> 0, raised |-> NoError]

\* _handle_rate_limit taking a missing reset time for a reset that is due
handle_rate_limit_waits_without_reset(resp, t, aw) ==
    LET remaining == resp.remaining
        reset_timestamp == resp.reset
    IN  IF remaining # Absent /\ remaining = 0
        THEN LET reset_time == IF reset_timestamp # Absent THEN reset_timestamp ELSE t
                 wait_seconds == Max(0, reset_time - t) + 1
             IN  IF aw /\ wait_seconds <= MaxWaitSeconds
                 THEN [ret |-> "True", sleep |-> wait_seconds, raised |-> NoError]
                 ELSE IF reset_timestamp # Absent
                 THEN [ret |-> "raise", sleep |-> 0,
                       raised |-> RateLimitErrorAt(reset_time, wait_seconds)]
                 ELSE [ret |-> "raise", sleep |-> 0, raised |-> RateLimitErrorPlain]
        ELSE IF remaining # Absent /\ remaining < LowRemaining
             THEN [ret |-> "False", sleep |-> ThrottleSleep, raised |-> NoError]
             ELSE [ret |-> "False", sleep |-> 0, raised |-> NoError]

_handle_rate_limit(resp, t, aw) ==
    LET remaining == resp.remaining
        reset_timestamp == resp.reset
    IN  IF remaining # Absent /\ remaining = 0
        THEN IF reset_timestamp # Absent
             THEN LET reset_time == reset_timestamp
                      wait_seconds == Max(0, reset_time - t) + 1
                  IN  IF aw /\ wait_seconds <= MaxWaitSeconds
                      THEN [ret |-> "True", sleep |-> wait_seconds, raised |-> NoError]
                      ELSE [ret |-> "raise", sleep |-> 0,
                            raised |-> RateLimitErrorAt(reset_time, wait_seconds)]
             ELSE [ret |-> "raise", sleep |-> 0, raised |-> RateLimitErrorPlain]
        ELSE IF remaining # Absent /\ remaining < LowRemaining
             THEN [ret |-> "False", sleep |-> ThrottleSleep, raised |-> NoError]
             ELSE [ret |-> "False", sleep |-> 0, raised |-> NoError]

----------------------------------------------------------------------------
(* One iteration of the `while True` loop of _search_issues / _paginate      *)
(* (the two differ only in where the item list sits in the JSON) and of      *)
(* get_pr_details, from the response received to the loop's next position.   *)
(*   next: "retry" (continue with the same page), "raise", "break" (the      *)
(*   generator is exhausted), "continue" (page += 1), "return".              *)

paged_iteration_retries_short_page(pg, resp, t, aw) ==
    LET h == _handle_rate_limit(resp, t, aw)
        items == resp.items
    IN  IF h.ret = "True"
        THEN [next |-> "retry", sleep |-> h.sleep, raised |-> NoError,
              yield |-> <<>>, page |-> pg]
        ELSE IF h.ret = "raise"
        THEN [next |-> "raise", sleep |-> 0, raised |-> h.raised,
              yield |-> <<>>, page |-> pg]
        ELSE IF RaisesForStatus(resp.status)
        THEN [next |-> "raise", sleep |-> h.sleep, raised |-> HTTPStatusError,
              yield |-> <<>>, page |-> pg]
        ELSE IF items = <<>>
        THEN [next |-> "retry", sleep |-> h.sleep, raised |-> NoError,
              yield |-> <<>>, page |-> pg]
        ELSE IF Len(items) < PerPage
        THEN [next |-> "retry", sleep |-> h.sleep, raised |-> NoError,
              yield |-> items, page |-> pg]
        ELSE [next |-> "continue", sleep |-> h.sleep, raised |-> NoError,
              yield |-> items, page |-> pg + 1]

paged_iteration_skip_page(pg, resp, t, aw) ==
    LET h == _handle_rate_limit(resp, t, aw)
        items == resp.items
    IN  IF h.ret = "True"
        THEN [next |-> "retry", sleep |-> h.sleep, raised |-> NoError,
              yield |-> <<>>, page |-> pg + 1]
        ELSE IF h.ret = "raise"
        THEN [next |-> "raise", sleep |-> 0, raised |-> h.raised,
              yield |-> <<>>, page |-> pg]
        ELSE IF RaisesForStatus(resp.status)
        THEN [next |-> "raise", sleep |-> h.sleep, raised |-> HTTPStatusError,
              yield |-> <<>>, page |-> pg]
        ELSE IF items = <<>>
        THEN [next |-> "break", sleep |-> h.sleep, raised |-> NoError,
              yield |-> <<>>, page |-> pg]
        ELSE IF Len(items) < PerPage
        THEN [next |-> "break", sleep |-> h.sleep, raised |-> NoError,
              yield |-> items, page |-> pg]
        ELSE [next |-> "continue", sleep |-> h.sleep, raised |-> NoError,
              yield |-> items, page |-> pg + 1]

paged_iteration_status_first(pg, resp, t, aw) ==
    LET h == _handle_rate_limit(resp, t, aw)
        items == resp.items
    IN  IF RaisesForStatus(resp.status)
        THEN [next |-> "raise", sleep |-> 0, raised |-> HTTPStatusError,
              yield |-> <<>>, page |-> pg]
        ELSE IF h.ret = "True"
        THEN [next |-> "retry", sleep |-> h.sleep, raised |-> NoError,
              yield |-> <<>>, page |-> pg]
        ELSE IF h.ret = "raise"
        THEN [next |-> "raise", sleep |-> 0, raised |-> h.raised,
              yield |-> <<>>, page |-> pg]
        ELSE IF items = <<>>
        THEN [next |-> "break", sleep |-> h.sleep, raised |-> NoError,
              yield |-> <<>>, page |-> pg]
        ELSE IF Len(items) < PerPage
        THEN [next |-> "break", sleep |-> h.sleep, raised |-> NoError,
              yield |-> items, page |-> pg]
        ELSE [next |-> "continue", sleep |-> h.sleep, raised |-> NoError,
              yield |-> items, page |-> pg + 1]

paged_iteration(pg, resp, t, aw) ==
    LET h == _handle_rate_limit(resp, t, aw)
        items == resp.items
    IN  IF h.ret = "True"
        THEN [next |-> "retry", sleep |-> h.sleep, raised |-> NoError,
              yield |-> <<>>, page |-> pg]
        ELSE IF h.ret = "raise"
        THEN [next |-> "raise", sleep |-> 0, raised |-> h.raised,
              yield |-> <<>>, page |-> pg]
        ELSE IF RaisesForStatus(resp.status)
        THEN [next |-> "raise", sleep |-> h.sleep, raised |-> HTTPStatusError,
              yield |-> <<>>, page |-> pg]
        ELSE IF items = <<>>
        THEN [next |-> "break", sleep |-> h.sleep, raised |-> NoError,
              yield |-> <<>>, page |-> pg]
        ELSE IF Len(items) < PerPage
        THEN [next |-> "break", sleep |-> h.sleep, raised |-> NoError,
              yield |-> items, page |-> pg]
        ELSE [next |-> "continue", sleep |-> h.sleep, raised |-> NoError,
              yield |-> items, page |-> pg + 1]

details_iteration(resp, t, aw) ==
    LET h == _handle_rate_limit(resp, t, aw)
    IN  IF h.ret = "True"
        THEN [next |-> "retry", sleep |-> h.sleep, raised |-> NoError]
        ELSE IF h.ret = "raise"
        THEN [next |-> "raise", sleep |-> 0, raised |-> h.raised]
        ELSE IF RaisesForStatus(resp.status)
        THEN [next |-> "raise", sleep |-> h.sleep, raised |-> HTTPStatusError]
        ELSE [next |-> "return", sleep |-> h.sleep, raised |-> NoError]

----------------------------------------------------------------------------
(* The server and the requests of one fetch. *)

PagedOps == {"_search_issues", "_paginate"}
Ops == PagedOps \cup {"get_pr_details"}

\* what the server holds: up to MaxPages full pages, and just under or over
Totals ==
    {p * PerPage + r : p \in 0..MaxPages, r \in {0, 1, PerPage - 1}}

\* page pg of a listing of `total` items, the items numbered in server order
ServerPage(total, pg) ==
    LET first == (pg - 1) * PerPage
        n == Max(0, Min(PerPage, total - first))
    IN  [i \in 1..n |-> first + i]

\* absent, exhausted, and on either side of the throttle threshold
RemainingValues == {Absent, 0, 4, 5}
ClockReadings == {1000}
ResetValues == {Absent, 995, 1003, 1119, 1120}
StatusCodes == {200, 500}
DetailRecords ==
    {[number |-> 7, base |-> "2.4", state |-> <<"c", "l", "o", "s", "e", "d">>,
      merged_at |-> 900, pull_request_merged_at |-> Absent]}

\* params of self.client.get: the endpoint, the query and the page
Request(o, pg) ==
    IF o = "_search_issues"
    THEN [endpoint |-> "/search/issues", q |-> "query", page |-> pg]
    ELSE IF o = "_paginate"
    THEN [endpoint |-> "/repos/{repo}/branches", q |-> "", page |-> pg]
    ELSE [endpoint |-> "/repos/{repo}/pulls/{pr_number}", q |-> "", page |-> 0]

ServerResponses(o, total, pg) ==
    {[remaining |-> rem, reset |-> rst, status |-> st,
      items |-> IF st = 200 /\ o \in PagedOps THEN ServerPage(total, pg) ELSE <<>>,
      detail |-> IF st = 200 /\ o = "get_pr_details" THEN d ELSE NoDetail] :
        rem \in RemainingValues, rst \in ResetValues, st \in StatusCodes,
        d \in DetailRecords}

Iteration ==
    IF op \in PagedOps
    THEN paged_iteration(page, response, time_now, auto_wait)
    ELSE details_iteration(response, time_now, auto_wait)
         @@ [yield |-> <<>>, page |-> page]

----------------------------------------------------------------------------
(* Actions of a fetch. *)

\* no call of the matcher is under way
MatcherIdle ==
    /\ body = <<>>
    /\ source_pr_number = 0
    /\ mpc = "idle"
    /\ is_reference = FALSE

\* no call of detect_release_branches is under way
BranchIdle ==
    /\ all_branches = <<>>
    /\ exclude_branch = <<>>
    /\ major_only = TRUE
    /\ limit = Absent
    /\ bpc = "idle"
    /\ release_out = <<>>

\* no detection run is under way
DetectIdle ==
    /\ source_prs = <<>>
    /\ target_branches = <<>>
    /\ dpc = "idle"
    /\ pr_index = 1
    /\ related_prs = <<>>
    /\ branch_to_cp = <<>>
    /\ results = <<>>
    /\ visited = <<>>
    /\ detect_returned = <<>>
    /\ client_error = NoError
    /\ cli_printed = <<>>
    /\ exit_code = Absent

\* no call of filter_branches is under way
FilterIdle ==
    /\ repo_branches = <<>>
    /\ target = <<>>
    /\ fpc = "idle"
    /\ filtered = <<>>

\* no call of _parse_pr_info is under way
ParseIdle ==
    /\ parse_data = NoDetail
    /\ parse_base = ""
    /\ ppc = "idle"
    /\ parsed = [number |-> 0, state |-> "", merged_at |-> Absent, base_branch |-> ""]

\* no fetch is under way
ClientAtRest ==
    /\ op = "none"
    /\ server_total = 0
    /\ page = 1
    /\ cpc = "idle"
    /\ response = NoResponse
    /\ time_now = 0
    /\ yielded = <<>>
    /\ requests = <<>>
    /\ sleep_call = 0
    /\ error = NoError
    /\ returned = NoDetail

\* GitHubClient(token): auto_wait defaults to True
ClientIdle ==
    /\ ClientAtRest
    /\ auto_wait = TRUE

InitClient ==
    /\ MatcherIdle
    /\ BranchIdle
    /\ DetectIdle
    /\ op \in Ops
    /\ auto_wait \in BOOLEAN
    /\ server_total \in Totals
    /\ page = 1
    /\ cpc = "get"
    /\ response = NoResponse
    /\ time_now \in ClockReadings
    /\ yielded = <<>>
    /\ requests = <<>>
    /\ sleep_call = 0
    /\ error = NoError
    /\ returned = NoDetail
    /\ FilterIdle
    /\ ParseIdle

\* response = self.client.get(endpoint, params=params)
ClientGet ==
    /\ cpc = "get"
    /\ Len(requests) < MaxRequests
    /\ requests' = Append(requests, Request(op, page))
    /\ response' \in ServerResponses(op, server_total, page)
    /\ time_now' \in ClockReadings
    /\ cpc' = "handle"
    /\ UNCHANGED <<op, auto_wait, server_total, page, yielded, sleep_call, error,
                   returned>>
    /\ UNCHANGED <<matcherVars, branchVars, detectVars, filterVars, parseVars>>

\* _handle_rate_limit returned True: `continue`
RateLimitRetry ==
    /\ cpc = "handle"
    /\ Iteration.next = "retry"
    /\ sleep_call' = Iteration.sleep
    /\ page' = Iteration.page
    /\ cpc' = "get"
    /\ UNCHANGED <<op, auto_wait, server_total, response, time_now, yielded,
                   requests, error, returned>>
    /\ UNCHANGED <<matcherVars, branchVars, detectVars, filterVars, parseVars>>

\* _handle_rate_limit or raise_for_status raised
ClientRaise ==
    /\ cpc = "handle"
    /\ Iteration.next = "raise"
    /\ sleep_call' = Iteration.sleep
    /\ error' = Iteration.raised
    /\ cpc' = "raised"
    /\ UNCHANGED <<op, auto_wait, server_total, page, response, time_now, yielded,
                   requests, returned>>
    /\ UNCHANGED <<matcherVars, branchVars, detectVars, filterVars, parseVars>>

\* the page is consumed: yield from items, then break or page += 1
ConsumePage ==
    /\ cpc = "handle"
    /\ Iteration.next \in {"break", "continue"}
    /\ sleep_call' = Iteration.sleep
    /\ yielded' = yielded \o Iteration.yield
    /\ page' = Iteration.page
    /\ cpc' = IF Iteration.next = "break" THEN "done" ELSE "get"
    /\ UNCHANGED <<op, auto_wait, server_total, response, time_now, requests,
                   error, returned>>
    /\ UNCHANGED <<matcherVars, branchVars, detectVars, filterVars, parseVars>>

\* return response.json()
ReturnJson ==
    /\ cpc = "handle"
    /\ Iteration.next = "return"
    /\ sleep_call' = Iteration.sleep
    /\ returned' = response.detail
    /\ cpc' = "done"
    /\ UNCHANGED <<op, auto_wait, server_total, page, response, time_now, yielded,
                   requests, error>>
    /\ UNCHANGED <<matcherVars, branchVars, detectVars, filterVars, parseVars>>

NextClient ==
    \/ ClientGet
    \/ RateLimitRetry
    \/ ClientRaise
    \/ ConsumePage
    \/ ReturnJson

SpecClient == InitClient /\ [][NextClient]_vars

----------------------------------------------------------------------------
(* Properties of a fetch (SpecClient). *)

LastRequest == requests[Len(requests)]

\* the wait _handle_rate_limit computes for the response in hand
ComputedWait == Max(0, response.reset - time_now) + 1

\* the response in hand is rate limited and will be waited out
WaitedOut ==
    /\ response.remaining = 0
    /\ response.reset # Absent
    /\ auto_wait
    /\ ComputedWait <= 120

\* the response in hand is rate limited and will not be waited out
NotWaitedOut ==
    /\ response.remaining = 0
    /\ response.reset # Absent
    /\ (ComputedWait > 120 \/ ~auto_wait)

\* what a paginated fetch has yielded is the first (page - 1) full pages, in
\* server order, and everything once the fetch is done
YieldedInOrder ==
    op \in PagedOps =>
        /\ yielded = [i \in 1..Len(yielded) |-> i]
        /\ cpc \in {"get", "handle"} => Len(yielded) = (page - 1) * PerPage
        /\ cpc = "done" => Len(yielded) = server_total
        /\ cpc = "handle" => LastRequest.page = page

\* how one step of a paginated fetch moves the page number and the requests
PagingStep ==
    op \in PagedOps =>
        /\ page' # page =>
              /\ page' = page + 1
              /\ Len(response.items) = 100
              /\ yielded' = yielded \o response.items
        /\ requests' # requests =>
              requests' = Append(requests, Request(op, page))
        /\ (cpc = "handle" /\ response.remaining = 0) =>
              (page' = page /\ yielded' = yielded /\ cpc' \in {"get", "raised"})
        /\ (cpc = "get" /\ requests # <<>> /\ response.remaining = 0) =>
              requests' = Append(requests, LastRequest)
        /\ (cpc = "handle" /\ yielded' # yielded /\ Len(response.items) < 100) =>
              cpc' = "done"
        /\ cpc = "done" => requests' = requests

\* C2: a paginated fetch yields the server's items exactly once and in server
\* order whatever retries happen: what has been yielded is always the first
\* (page - 1) full pages, the page number moves only by one and only when a
\* page of exactly 100 items is yielded, a retry leaves the page number alone
\* and the next request carries it again, and a page shorter than 100 items
\* ends the fetch with everything yielded and no further request.
C2_PaginationExactlyOnce == []YieldedInOrder /\ [][PagingStep]_vars

\* a fetch of more than one page that was retried once and ran to its end
C2_Witness ==
    /\ op \in PagedOps
    /\ cpc = "done"
    /\ Len(yielded) > PerPage
    /\ \E i \in 1..(Len(requests) - 1) : requests[i] = requests[i + 1]

WaitStep ==
    /\ (cpc = "handle" /\ WaitedOut) =>
          /\ sleep_call' = ComputedWait
          /\ cpc' = "get"
          /\ error' = NoError
          /\ yielded' = yielded
          /\ returned' = returned
          /\ page' = page
    /\ (cpc = "get" /\ requests # <<>> /\ WaitedOut) =>
          requests' = Append(requests, LastRequest)

\* C3: a response with remaining = 0 whose computed wait is at most 120 s, with
\* automatic waiting on, makes the client sleep exactly the computed wait and
\* go back to issuing the request; nothing is raised, nothing of the response
\* is yielded or returned, and the request issued next equals the last one.
C3_WaitThenRetrySameRequest == [][WaitStep]_vars

\* the request was issued again after a sleep of 4 s (reset 3 s ahead)
C3_Witness ==
    /\ cpc = "handle"
    /\ Len(requests) >= 2
    /\ requests[Len(requests)] = requests[Len(requests) - 1]
    /\ sleep_call = 4
    /\ error = NoError

RaiseStep ==
    /\ (cpc = "handle" /\ NotWaitedOut) =>
          /\ cpc' = "raised"
          /\ error'.type = "RateLimitError"
          /\ error'.resets_at = strftime_HMS(response.reset)
          /\ sleep_call' = 0
          /\ requests' = requests
    /\ cpc = "raised" => requests' = requests

\* C4: a response with remaining = 0 whose computed wait exceeds 120 s, or that
\* arrives with automatic waiting off, makes the client raise RateLimitError
\* carrying the reset time, with no sleep and no further request.
C4_RaiseBeyondBound == [][RaiseStep]_vars

\* automatic waiting is on and the reset lies 120 s ahead: RateLimitError
C4_Witness ==
    /\ cpc = "raised"
    /\ auto_wait
    /\ response.remaining = 0
    /\ response.reset = 1120
    /\ error.type = "RateLimitError"
    /\ error.resets_at = <<0, 18, 40>>

\* the response in hand is one with remaining = 0 and no reset time
ExhaustedNoReset ==
    cpc = "handle" /\ response.remaining = 0 /\ response.reset = Absent

NoResetStep ==
    ExhaustedNoReset =>
        /\ cpc' = "raised"
        /\ error' = RateLimitErrorPlain
        /\ sleep_call' = 0
        /\ requests' = requests
        /\ yielded' = yielded
        /\ returned' = returned

\* C27: a response with remaining = 0 and no reset time makes the client raise
\* the rate-limit error at once, with no sleep and no further request, also
\* when automatic waiting is on.
C27_NoResetRaisesAtOnce ==
    /\ [][NoResetStep]_vars
    /\ [](cpc = "raised" /\ response.remaining = 0 /\ response.reset = Absent
            => error = RateLimitErrorPlain /\ sleep_call = 0)

\* automatic waiting is on, remaining = 0, no reset time: RateLimitError
C27_Witness ==
    /\ cpc = "raised"
    /\ auto_wait
    /\ response.remaining = 0
    /\ response.reset = Absent
    /\ error = RateLimitErrorPlain
    /\ sleep_call = 0
    /\ Len(requests) = 1

\* the response in hand is one with remaining = 0 and a reset time
Exhausted == cpc = "handle" /\ response.remaining = 0 /\ response.reset # Absent

\* seconds from the clock reading to the reset time of the response in hand
Ahead == response.reset - time_now

WaitFormulaStep ==
    /\ (Exhausted /\ cpc' = "get") =>
          /\ sleep_call' = (IF Ahead > 0 THEN Ahead ELSE 0) + 1
          /\ sleep_call' >= 1
          /\ Ahead <= 0 => sleep_call' = 1
    /\ (Exhausted /\ cpc' = "raised") =>
          /\ error'.wait = (IF Ahead > 0 THEN Ahead ELSE 0) + 1
          /\ error'.wait >= 1
    /\ (Exhausted /\ auto_wait /\ Ahead = 119) =>
          (cpc' = "get" /\ sleep_call' = 120)
    /\ (Exhausted /\ auto_wait /\ Ahead = 120) =>
          (cpc' = "raised" /\ error'.wait = 121 /\ sleep_call' = 0)
    /\ (Exhausted /\ auto_wait) => (cpc' = "get" <=> Ahead + 1 <= 120)

\* C16: on remaining = 0 the wait is max(0, reset - now) + 1 seconds: at least
\* 1, and exactly 1 when the reset time is past; with automatic waiting on
\* the client waits when this value is at most 120 (reset 119 s ahead: sleep
\* 120 and retry) and raises when it is more (reset 120 s ahead: wait 121).
C16_WaitFormulaAndBound == [][WaitFormulaStep]_vars

\* the reset was 119 s ahead and the client slept 120 s and asked again
C16_Witness ==
    /\ cpc = "handle"
    /\ Len(requests) >= 2
    /\ sleep_call = 120
    /\ auto_wait

\* the response in hand has quota left, but less than 5
LowQuota == cpc = "handle" /\ response.remaining \in 1..4

ThrottleStep ==
    /\ LowQuota =>
          /\ sleep_call' = 2
          /\ requests' = requests
          /\ error'.type # "RateLimitError"
          /\ response' = response
          /\ cpc' # "get" \/ page' = page + 1
          /\ page' # page => (page' = page + 1 /\ Len(response.items) = PerPage)
          /\ response.status = 200 =>
                /\ error' = NoError
                /\ op \in PagedOps => yielded' = yielded \o response.items
                /\ op = "get_pr_details" => returned' = response.detail
          /\ response.status # 200 => error'.type = "HTTPStatusError"
    /\ (cpc = "handle" /\ response.remaining \notin 0..4) => sleep_call' = 0

\* C17: a response with remaining quota between 1 and 4 makes the client
\* sleep 2 s and go on with that response: no request is issued again, no
\* rate-limit error is raised, the page number moves only as the page's
\* length says, and the response is used as its status says; with remaining
\* 5 or more, or absent, there is no sleep.
C17_ThrottleThenProceed == [][ThrottleStep]_vars

\* a full first page that came with remaining = 4 was consumed after a sleep
C17_Witness ==
    /\ op \in PagedOps
    /\ cpc = "get"
    /\ page = 2
    /\ response.remaining = 4
    /\ sleep_call = 2
    /\ Len(requests) = 1
    /\ Len(yielded) = PerPage

QuotaBeforeStatusStep ==
    /\ (cpc = "handle" /\ WaitedOut /\ RaisesForStatus(response.status)) =>
          (cpc' = "get" /\ error' = NoError)
    /\ (cpc = "handle" /\ NotWaitedOut /\ RaisesForStatus(response.status)) =>
          (cpc' = "raised" /\ error'.type = "RateLimitError")
    /\ (cpc = "handle" /\ response.remaining # 0 /\ RaisesForStatus(response.status)) =>
          /\ cpc' = "raised"
          /\ error'.type = "HTTPStatusError"
          /\ requests' = requests
          /\ yielded' = yielded
    /\ cpc = "raised" => UNCHANGED vars

\* C18: the quota headers of a response are looked at before its status: a
\* response with remaining = 0 inside the wait bound is retried even when its
\* status is an error, and a response with an error status and remaining
\* nonzero or absent raises the HTTP error at once: no request follows.
C18_QuotaBeforeStatus == [][QuotaBeforeStatusStep]_vars

\* an error response with remaining = 0 was waited out and the request is
\* about to be issued again
C18_Witness ==
    /\ cpc = "get"
    /\ requests # <<>>
    /\ response.status = 500
    /\ response.remaining = 0
    /\ sleep_call = 4
    /\ error = NoError

----------------------------------------------------------------------------
(* A fetch followed without a bound on its requests.  The log `requests`    *)
(* keeps the last request only, so that a retry loop is a cycle of states.  *)

\* response = self.client.get(endpoint, params=params)
ClientGetAgain ==
    /\ cpc = "get"
    /\ requests' = <<Request(op, page)>>
    /\ response' \in ServerResponses(op, server_total, page)
    /\ time_now' \in ClockReadings
    /\ cpc' = "handle"
    /\ UNCHANGED <<op, auto_wait, server_total, page, yielded, sleep_call, error,
                   returned>>
    /\ UNCHANGED <<matcherVars, branchVars, detectVars, filterVars, parseVars>>

\* the request is answered with quota left
AnsweredWithQuota == ClientGetAgain /\ response'.remaining # 0

NextClientUnbounded ==
    \/ ClientGetAgain
    \/ RateLimitRetry
    \/ ClientRaise
    \/ ConsumePage
    \/ ReturnJson

\* the client keeps running, and a request that is issued again and again
\* is eventually answered with quota left
SpecClientLive ==
    /\ InitClient
    /\ [][NextClientUnbounded]_vars
    /\ WF_vars(NextClientUnbounded)
    /\ SF_vars(AnsweredWithQuota)

Terminated == cpc \in {"done", "raised"}

\* the only step that goes back to the same request is the rate-limit retry,
\* and it counts nothing: it changes the loop position and the sleep only
LoopStep ==
    /\ (cpc = "handle" /\ cpc' = "get" /\ page' = page) =>
          /\ response.remaining = 0
          /\ UNCHANGED <<op, auto_wait, server_total, response, time_now, yielded,
                         requests, error, returned>>
    /\ (cpc = "handle" /\ response.remaining # 0) =>
          (Terminated' \/ (page' = page + 1 /\ Len(response.items) = PerPage))
    /\ Terminated => UNCHANGED vars

\* C15: a fetch whose requests are eventually answered with quota left, the
\* server's listing being finite, terminates (it ends or raises) after
\* finitely many requests; the only step that repeats a request is the
\* rate-limit retry, which keeps no count of the retries.
C15_FetchTerminates == <>Terminated /\ [][LoopStep]_vars

\* a paginated fetch of more than two pages has ended
C15_Witness ==
    /\ op \in PagedOps
    /\ cpc = "done"
    /\ page = 3
    /\ Len(yielded) = 2 * PerPage + 1

----------------------------------------------------------------------------
(* Text.  A str is a sequence of one-character strings. *)

UpperCase ==
    <<"A", "B", "C", "D", "E", "F", "G", "H", "I", "J", "K", "L", "M",
      "N", "O", "P", "Q", "R", "S", "T", "U", "V", "W", "X", "Y", "Z">>
LowerCase ==
    <<"a", "b", "c", "d", "e", "f", "g", "h", "i", "j", "k", "l", "m",
      "n", "o", "p", "q", "r", "s", "t", "u", "v", "w", "x", "y", "z">>
DigitChars == <<"0", "1", "2", "3", "4", "5", "6", "7", "8", "9">>

\* the lower-case letter of every upper-case letter
ToLower ==
    [c \in {UpperCase[k] : k \in 1..26} |->
        LowerCase[CHOOSE k \in 1..26 : UpperCase[k] = c]]

\* str.lower()
lower(s) ==
    [i \in 1..Len(s) |-> IF s[i] \in DOMAIN ToLower THEN ToLower[s[i]] ELSE s[i]]

\* str(n) for n >= 0, as the f-strings format source_pr_number
RECURSIVE str(_)
str(n) ==
    IF n < 10 THEN <<DigitChars[n + 1]>>
    ELSE str(n \div 10) \o <<DigitChars[(n % 10) + 1]>>

\* `sub in s`
in(sub, s) ==
    \E i \in 1..(Len(s) - Len(sub) + 1) : SubSeq(s, i, i + Len(sub) - 1) = sub

----------------------------------------------------------------------------
(* _is_cherry_pick_reference (cherry_pick_detector.py). *)

CHERRY_PICK_KEYWORDS ==
    <<<<"c", "h", "e", "r", "r", "y", "-", "p", "i", "c", "k">>,
      <<"c", "h", "e", "r", "r", "y", " ", "p", "i", "c", "k">>,
      <<"c", "h", "e", "r", "r", "y", "p", "i", "c", "k">>,
      <<"b", "a", "c", "k", "p", "o", "r", "t">>,
      <<"p", "i", "c", "k", " ", "p", "r">>>>

pr_patterns(n) ==
    <<<<"#">> \o str(n),
      <<"p", "u", "l", "l", "/">> \o str(n),
      <<"p", "r", ":", " ", "#">> \o str(n),
      <<"p", "r", ":", " ">> \o str(n),
      <<"p", "r", ":", "#">> \o str(n),
      <<"p", "r", ":">> \o str(n)>>

is_cherry_pick_reference_no_shortcut(b, n) ==
    IF b = <<>> THEN FALSE
    ELSE
        LET body_lower == lower(b)
            has_keyword ==
                \E k \in 1..Len(CHERRY_PICK_KEYWORDS) :
                    in(CHERRY_PICK_KEYWORDS[k], body_lower)
            has_reference ==
                \E k \in 1..Len(pr_patterns(n)) :
                    in(pr_patterns(n)[k], b) \/ in(pr_patterns(n)[k], body_lower)
        IN  has_keyword /\ has_reference

_is_cherry_pick_reference(b, n) ==
    IF b = <<>> THEN FALSE
    ELSE
        LET body_lower == lower(b)
            has_keyword ==
                \E k \in 1..Len(CHERRY_PICK_KEYWORDS) :
                    in(CHERRY_PICK_KEYWORDS[k], body_lower)
            has_reference ==
                \E k \in 1..Len(pr_patterns(n)) :
                    in(pr_patterns(n)[k], b) \/ in(pr_patterns(n)[k], body_lower)
            has_pr_prefix ==
                in(<<"p", "r", ":">>, body_lower) \/ in(<<"p", "r", " ", ":">>, body_lower)
        IN  IF has_pr_prefix /\ has_reference
            THEN TRUE
            ELSE has_keyword /\ has_reference

(* The bodies and source PR numbers the matcher is applied to: every body is *)
(* a concatenation of at most MaxParts fragments.                            *)

MaxParts == 3

BodyParts ==
    {<<"C", "h", "e", "r", "r", "y", "-", "p", "i", "c", "k", " ", "f", "r", "o", "m", " ", "m", "a", "s", "t", "e", "r", "\n">>,
     <<"p", "r", ":", " ", "#">>,
     <<"p", "r", ":", " ">>,
     <<"P", "R", ":">>,
     <<"#">>,
     <<"4", "5", "9", "1", "1">>,
     <<"4", "5", "1", "1", "1">>,
     <<"1", "2", "3">>,
     <<"u", "n", "r", "e", "l", "a", "t", "e", "d", " ", "t", "e", "x", "t", " ">>,
     <<"p", "u", "l", "l", "/">>,
     <<"B", "a", "c", "k", "p", "o", "r", "t", " ">>}

RECURSIVE Concatenations(_)
Concatenations(k) ==
    IF k = 0 THEN {<<>>}
    ELSE LET shorter == Concatenations(k - 1)
         IN  shorter \cup {b \o part : b \in shorter, part \in BodyParts}

Bodies == Concatenations(MaxParts)

SourceNumbers == {12, 123, 45111, 45911}

InitMatcher ==
    /\ body \in Bodies
    /\ source_pr_number \in SourceNumbers
    /\ mpc = "call"
    /\ is_reference = FALSE
    /\ BranchIdle
    /\ ClientIdle
    /\ DetectIdle
    /\ FilterIdle
    /\ ParseIdle

\* the call _is_cherry_pick_reference(body, source_pr.number) of line 228
Match ==
    /\ mpc = "call"
    /\ is_reference' = _is_cherry_pick_reference(body, source_pr_number)
    /\ mpc' = "returned"
    /\ UNCHANGED <<body, source_pr_number>>
    /\ UNCHANGED <<clientVars, branchVars, detectVars, filterVars, parseVars>>

SpecMatcher == InitMatcher /\ [][Match]_vars

(* Properties of the matcher (SpecMatcher). *)

\* text occurs in s at position i
OccursAt(text, s, i) ==
    /\ i + Len(text) - 1 <= Len(s)
    /\ \A j \in 1..Len(text) : s[i + j - 1] = text[j]

Occurs(text, s) == \E i \in 1..Len(s) : OccursAt(text, s, i)

\* the decimal digits of n, least significant last
Decimal(n) ==
    LET width == CHOOSE w \in 1..6 : n < 10^w /\ (w = 1 \/ n >= 10^(w - 1))
    IN  [i \in 1..width |-> DigitChars[((n \div 10^(width - i)) % 10) + 1]]

ReferenceForms(n) ==
    {<<"#">> \o Decimal(n),
     <<"p", "u", "l", "l", "/">> \o Decimal(n),
     <<"p", "r", ":", " ", "#">> \o Decimal(n),
     <<"p", "r", ":", " ">> \o Decimal(n),
     <<"p", "r", ":", "#">> \o Decimal(n),
     <<"p", "r", ":">> \o Decimal(n)}

ReferenceHit ==
    \E f \in ReferenceForms(source_pr_number) :
        Occurs(f, body) \/ Occurs(f, lower(body))

KeywordHit ==
    \E kw \in {<<"c", "h", "e", "r", "r", "y", "-", "p", "i", "c", "k">>,
               <<"c", "h", "e", "r", "r", "y", " ", "p", "i", "c", "k">>,
               <<"c", "h", "e", "r", "r", "y", "p", "i", "c", "k">>,
               <<"b", "a", "c", "k", "p", "o", "r", "t">>,
               <<"p", "i", "c", "k", " ", "p", "r">>} :
        Occurs(kw, lower(body))

LabelHit ==
    Occurs(<<"p", "r", ":">>, lower(body)) \/ Occurs(<<"p", "r", " ", ":">>, lower(body))

Example1 == <<"C", "h", "e", "r", "r", "y", "-", "p", "i", "c", "k", " ", "f", "r", "o", "m", " ", "m", "a", "s", "t", "e", "r", "\n", "p", "r", ":", " ", "#", "4", "5", "9", "1", "1">>
Example2 == <<"p", "r", ":", " ", "4", "5", "1", "1", "1">>
Example3 == <<"u", "n", "r", "e", "l", "a", "t", "e", "d", " ", "t", "e", "x", "t", " ", "#", "1", "2", "3">>

\* C8: the matcher answers true exactly when a reference form of the source
\* number occurs in the text or its lower-cased form and, in the lower-cased
\* text, a keyword or a "pr:" / "pr :" label occurs; never for the empty text;
\* true for "Cherry-pick from master\npr: #45911" with 45911 and for
\* "pr: 45111" with 45111, false for "unrelated text #123" with 123.
C8_MatcherDecision ==
    mpc = "returned" =>
        /\ is_reference = (ReferenceHit /\ (KeywordHit \/ LabelHit))
        /\ body = <<>> => ~is_reference
        /\ (body = Example1 /\ source_pr_number = 45911) => is_reference
        /\ (body = Example2 /\ source_pr_number = 45111) => is_reference
        /\ (body = Example3 /\ source_pr_number = 123) => ~is_reference

\* the label shortcut: "pr: 45111" holds no keyword and is accepted
C8_Witness ==
    /\ mpc = "returned"
    /\ body = Example2
    /\ source_pr_number = 45111
    /\ ~KeywordHit
    /\ is_reference

----------------------------------------------------------------------------
(* branch_detector.py.  Branch names hold no newline, so `$` is the end of  *)
(* the name.  A pattern is the sequence of its elements: "d+" is \d+, any   *)
(* other element is that literal character.                                 *)

IsDigit(c) == \E k \in 1..10 : DigitChars[k] = c

\* the index just past the digits that start at s[i]
RECURSIVE SkipDigits(_, _)
SkipDigits(s, i) ==
    IF i <= Len(s) /\ IsDigit(s[i]) THEN SkipDigits(s, i + 1) ELSE i

\* the rest of an anchored pattern matches s from index i to its end
RECURSIVE MatchFrom(_, _, _)
MatchFrom(pattern, s, i) ==
    IF pattern = <<>> THEN i = Len(s) + 1
    ELSE IF Head(pattern) = "d+"
    THEN LET j == SkipDigits(s, i)
         IN  j > i /\ MatchFrom(Tail(pattern), s, j)
    ELSE i <= Len(s) /\ s[i] = Head(pattern) /\ MatchFrom(Tail(pattern), s, i + 1)

re_match(pattern, s) == MatchFrom(pattern, s, 1)

RELEASE_BRANCH_PATTERNS ==
    <<<<"d+", ".", "d+">>,
      <<"d+", ".", "d+", ".", "d+">>,
      <<"d+", ".", "x">>,
      <<"d+", ".", "d+", ".", "x">>>>

major_pattern == <<"d+", ".", "d+">>

\* re.match(combined_pattern, branch): the alternation of the four patterns
combined_match(branch) ==
    \E k \in 1..Len(RELEASE_BRANCH_PATTERNS) :
        re_match(RELEASE_BRANCH_PATTERNS[k], branch)

\* str.rstrip(chars)
RECURSIVE rstrip(_, _)
rstrip(s, chars) ==
    IF s # <<>> /\ s[Len(s)] \in chars
    THEN rstrip(SubSeq(s, 1, Len(s) - 1), chars)
    ELSE s

\* str.split(sep) for a one-character sep
RECURSIVE split(_, _)
split(s, sep) ==
    IF \A i \in 1..Len(s) : s[i] # sep THEN <<s>>
    ELSE LET i == CHOOSE k \in 1..Len(s) :
                      s[k] = sep /\ \A m \in 1..(k - 1) : s[m] # sep
         IN  <<SubSeq(s, 1, i - 1)>> \o split(SubSeq(s, i + 1, Len(s)), sep)

\* str.isdigit()
isdigit(p) == p # <<>> /\ \A i \in 1..Len(p) : IsDigit(p[i])

\* int(p) for a string of digits
RECURSIVE int(_)
int(p) ==
    IF p = <<>> THEN 0
    ELSE int(SubSeq(p, 1, Len(p) - 1)) * 10
         + ((CHOOSE k \in 1..10 : DigitChars[k] = p[Len(p)]) - 1)

_parse_version(branch) ==
    LET clean == rstrip(branch, {".", "x"})
        parts == split(clean, ".")
        numeric == SelectSeq(parts, isdigit)
    IN  [i \in 1..Len(numeric) |-> int(numeric[i])]

version_compare_major_only(a, b) ==
    LET va == _parse_version(a)
        vb == _parse_version(b)
        na == IF Len(va) >= 1 THEN va[1] ELSE 0
        nb == IF Len(vb) >= 1 THEN vb[1] ELSE 0
    IN  na - nb

_version_compare(a, b) ==
    LET va == _parse_version(a)
        vb == _parse_version(b)
        na(i) == IF i <= Len(va) THEN va[i] ELSE 0
        nb(i) == IF i <= Len(vb) THEN vb[i] ELSE 0
        differ == {i \in 1..Max(Len(va), Len(vb)) : na(i) # nb(i)}
    IN  IF differ = {} THEN 0
        ELSE LET i == CHOOSE k \in differ : \A m \in differ : k <= m
             IN  na(i) - nb(i)

insert_descending_before_equals(acc, x) ==
    LET below == {i \in 1..Len(acc) : _version_compare(acc[i], x) <= 0}
        at == IF below = {} THEN Len(acc) + 1
              ELSE CHOOSE k \in below : \A m \in below : k <= m
    IN  SubSeq(acc, 1, at - 1) \o <<x>> \o SubSeq(acc, at, Len(acc))

\* x put into a descending list behind every entry that does not compare below it
insert_descending(acc, x) ==
    LET below == {i \in 1..Len(acc) : _version_compare(acc[i], x) < 0}
        at == IF below = {} THEN Len(acc) + 1
              ELSE CHOOSE k \in below : \A m \in below : k <= m
    IN  SubSeq(acc, 1, at - 1) \o <<x>> \o SubSeq(acc, at, Len(acc))

\* sorted(xs, key=cmp_to_key(_version_compare), reverse=True): descending and
\* stable (entries that compare equal keep their order)
RECURSIVE sorted_reverse(_)
sorted_reverse(xs) ==
    IF xs = <<>> THEN <<>>
    ELSE insert_descending(sorted_reverse(SubSeq(xs, 1, Len(xs) - 1)), xs[Len(xs)])

select_release_branches_keep_excluded(all, exclude, majors) ==
    LET keep(branch) ==
            IF majors THEN re_match(major_pattern, branch)
            ELSE combined_match(branch)
    IN  SelectSeq(all, keep)

select_release_branches_all_shapes(all, exclude, majors) ==
    LET keep(branch) == branch # exclude /\ combined_match(branch)
    IN  SelectSeq(all, keep)

\* the loop of lines 73-82
select_release_branches(all, exclude, majors) ==
    LET keep(branch) ==
            /\ branch # exclude
            /\ IF majors THEN re_match(major_pattern, branch)
               ELSE combined_match(branch)
    IN  SelectSeq(all, keep)

detect_release_branches(all, exclude, majors, lim) ==
    LET release_branches == select_release_branches(all, exclude, majors)
        sorted_branches == sorted_reverse(release_branches)
    IN  IF lim # Absent /\ lim # 0
        THEN SubSeq(sorted_branches, 1, Min(lim, Len(sorted_branches)))
        ELSE sorted_branches

(* The calls of detect_release_branches that are followed: lists of at most *)
(* MaxBranches distinct branch names.                                       *)

MaxBranches == 3

NoBranch == <<>>

BranchNames ==
    {<<"m", "a", "i", "n">>, <<"f", "e", "a", "t", "u", "r", "e", "-", "x">>, <<"2", ".", "4">>, <<"2", ".", "4", ".", "0">>, <<"2", ".", "4", ".", "x">>, <<"2", ".", "4", ".", "1">>, <<"2", ".", "1", "0">>, <<"2", ".", "x">>, <<"2", ".", "9">>}

ExcludeChoices == {NoBranch, <<"m", "a", "i", "n">>, <<"2", ".", "4">>, <<"2", ".", "4", ".", "x">>, <<"2", ".", "4", ".", "1">>}

LimitChoices == {Absent, 0, 1, 2}

\* no name occurs twice in l
Distinct(l) == \A i \in 1..Len(l), j \in 1..Len(l) : i # j => l[i] # l[j]

RECURSIVE BranchLists(_)
BranchLists(k) ==
    IF k = 0 THEN {<<>>}
    ELSE LET shorter == BranchLists(k - 1)
             longer == {Append(l, b) : l \in shorter, b \in BranchNames}
         IN  shorter \cup {l \in longer : Distinct(l)}

InitBranches ==
    /\ all_branches \in BranchLists(MaxBranches)
    /\ exclude_branch \in ExcludeChoices
    /\ major_only \in BOOLEAN
    /\ limit \in LimitChoices
    /\ bpc = "call"
    /\ release_out = <<>>
    /\ MatcherIdle
    /\ ClientIdle
    /\ DetectIdle
    /\ FilterIdle
    /\ ParseIdle

\* one call of detect_release_branches
DetectReleaseBranches ==
    /\ bpc = "call"
    /\ release_out' =
          detect_release_branches(all_branches, exclude_branch, major_only, limit)
    /\ bpc' = "returned"
    /\ UNCHANGED <<all_branches, exclude_branch, major_only, limit>>
    /\ UNCHANGED <<clientVars, matcherVars, detectVars, filterVars, parseVars>>

SpecBranches == InitBranches /\ [][DetectReleaseBranches]_vars

(* Properties of detect_release_branches (SpecBranches). *)

\* the names of BranchNames that have one of the four release shapes
ReleaseShaped == {<<"2", ".", "4">>, <<"2", ".", "4", ".", "0">>, <<"2", ".", "4", ".", "x">>, <<"2", ".", "4", ".", "1">>, <<"2", ".", "1", "0">>, <<"2", ".", "x">>, <<"2", ".", "9">>}

Elements(l) == {l[i] : i \in 1..Len(l)}

\* C10: whatever the branch list, the excluded branch and the mode, the output
\* of detect_release_branches holds neither the excluded branch nor a name
\* that has none of the release shapes.
C10_ExcludedNeverListed ==
    bpc = "returned" =>
        \A i \in 1..Len(release_out) :
            /\ release_out[i] # exclude_branch
            /\ release_out[i] \in ReleaseShaped

\* the excluded branch is release shaped and listed with other release
\* branches and a name of no release shape
C10_Witness ==
    /\ bpc = "returned"
    /\ exclude_branch \in ReleaseShaped
    /\ exclude_branch \in Elements(all_branches)
    /\ Elements(all_branches) \ ReleaseShaped # {}
    /\ release_out # <<>>

\* component i of a version tuple, a missing component counting as 0
Component(v, i) == IF i <= Len(v) THEN v[i] ELSE 0

\* version tuple va is greater than or equal to vb, component by component
\* from the left
TupleGE(va, vb) ==
    \A i \in 1..Max(Len(va), Len(vb)) :
        Component(va, i) < Component(vb, i) =>
            \E m \in 1..(i - 1) : Component(va, m) > Component(vb, m)

IndexOf(l, x) == CHOOSE i \in 1..Len(l) : l[i] = x

\* C11: the output of detect_release_branches is in descending version
\* order: of two adjacent names the first has the greater or equal version
\* tuple, a missing component counting as 0; the order is numeric, "2.10"
\* stands before "2.9".
C11_SortedDescending ==
    bpc = "returned" =>
        /\ \A i \in 1..(Len(release_out) - 1) :
              TupleGE(_parse_version(release_out[i]),
                      _parse_version(release_out[i + 1]))
        /\ ({<<"2", ".", "1", "0">>, <<"2", ".", "9">>} \subseteq Elements(release_out)
              => IndexOf(release_out, <<"2", ".", "1", "0">>)
                    < IndexOf(release_out, <<"2", ".", "9">>))

\* "2.9" was listed before "2.10" and a third name, and all three are output
C11_Witness ==
    /\ bpc = "returned"
    /\ Len(release_out) = 3
    /\ {<<"2", ".", "1", "0">>, <<"2", ".", "9">>} \subseteq Elements(release_out)
    /\ IndexOf(all_branches, <<"2", ".", "9">>)
          < IndexOf(all_branches, <<"2", ".", "1", "0">>)

\* the names of BranchNames of the shape major.minor
MajorMinorShaped == {<<"2", ".", "4">>, <<"2", ".", "1", "0">>, <<"2", ".", "9">>}

\* the input names the mode of the call selects
SelectedByMode ==
    (Elements(all_branches) \ {exclude_branch})
        \cap (IF major_only THEN MajorMinorShaped ELSE ReleaseShaped)

major_only_default == TRUE
limit_default == Absent

\* the names of BranchNames of the shape major.minor.x
MajorMinorXShaped == {<<"2", ".", "4", ".", "x">>}

\* C14: a call of detect_release_branches that gives only the branch list and
\* the exclusion (mode and cap at their defaults) detects the names with a
\* .x suffix: every non-excluded input name of the shape major.minor.x is in
\* the output.
C14_DefaultModeDetectsXSuffix ==
    (bpc = "returned" /\ major_only = major_only_default /\ limit = limit_default) =>
        (Elements(all_branches) \cap MajorMinorXShaped) \ {exclude_branch}
            \subseteq Elements(release_out)

\* two version tuples are equal component by component, a missing one being 0
TupleEqual(va, vb) ==
    \A i \in 1..Max(Len(va), Len(vb)) : Component(va, i) = Component(vb, i)

\* C22: names whose version tuples compare fully equal ("2.4", "2.4.0" and
\* "2.4.x" in all-release mode) stand in the output of
\* detect_release_branches in the order they have in the input.
C22_EqualVersionsKeepInputOrder ==
    bpc = "returned" =>
        \A i \in 1..Len(release_out) : \A j \in 1..Len(release_out) :
            (i < j /\ TupleEqual(_parse_version(release_out[i]),
                                 _parse_version(release_out[j])))
                => IndexOf(all_branches, release_out[i])
                      < IndexOf(all_branches, release_out[j])

\* "2.4.x", "2.4" and "2.4.0" were given in this order in all-release mode
C22_Witness ==
    /\ bpc = "returned"
    /\ ~major_only
    /\ all_branches = <<<<"2", ".", "4", ".", "x">>, <<"2", ".", "4">>,
                        <<"2", ".", "4", ".", "0">>>>
    /\ release_out = all_branches

\* the sorted list of the call before any cap
UncappedResult ==
    detect_release_branches(all_branches, exclude_branch, major_only, Absent)

\* C23: with a cap N >= 0 detect_release_branches returns the first
\* min(N, length) entries of the uncapped sorted result (nothing for a cap of
\* 0), and without a cap the whole sorted result.
C23_CapTruncates ==
    bpc = "returned" =>
        /\ limit = Absent => release_out = UncappedResult
        /\ limit # Absent =>
              release_out = SubSeq(UncappedResult, 1, Min(limit, Len(UncappedResult)))

----------------------------------------------------------------------------
(* Whole client calls, as the detector makes them: the loop of the method   *)
(* run against a script, the responses the server gives to its successive   *)
(* requests, each with the clock reading at which it is handled.  A script  *)
(* that ends while the method still retries leaves the call "pending".      *)

RECURSIVE run_paged(_, _, _, _)
run_paged(script, pg, acc, aw) ==
    IF script = <<>>
    THEN [kind |-> "pending", value |-> acc, raised |-> NoError]
    ELSE LET it == paged_iteration(pg, Head(script).response, Head(script).t, aw)
         IN  IF it.next = "raise"
             THEN [kind |-> "raise", value |-> <<>>, raised |-> it.raised]
             ELSE IF it.next = "break"
             THEN [kind |-> "return", value |-> acc \o it.yield, raised |-> NoError]
             ELSE run_paged(Tail(script), it.page, acc \o it.yield, aw)

\* list(self._search_issues(query))
search_related_prs(script, aw) == run_paged(script, 1, <<>>, aw)

RECURSIVE get_pr_details(_, _)
get_pr_details(script, aw) ==
    IF script = <<>>
    THEN [kind |-> "pending", value |-> NoDetail, raised |-> NoError]
    ELSE LET it == details_iteration(Head(script).response, Head(script).t, aw)
         IN  IF it.next = "raise"
             THEN [kind |-> "raise", value |-> NoDetail, raised |-> it.raised]
             ELSE IF it.next = "return"
             THEN [kind |-> "return", value |-> Head(script).response.detail,
                   raised |-> NoError]
             ELSE get_pr_details(Tail(script), aw)

----------------------------------------------------------------------------
(* cherry_pick_detector.py: PRInfo, CherryPickResult and the detector. *)

\* related_pr = None
NoPR == [number |-> 0, state |-> "", merged_at |-> Absent, base_branch |-> ""]

\* _parse_pr_state reading the record's own merged_at only
parse_pr_state_own_merged_at_only(pr_data) ==
    LET state == lower(pr_data.state)
    IN  IF pr_data.merged_at # Absent THEN "merged"
        ELSE IF state = <<"o", "p", "e", "n">> THEN "open"
        ELSE IF state = <<"c", "l", "o", "s", "e", "d">> THEN "closed"
        ELSE "open"

_parse_pr_state(pr_data) ==
    LET merged_at ==
            IF pr_data.pull_request_merged_at # Absent
            THEN pr_data.pull_request_merged_at
            ELSE pr_data.merged_at
        state == lower(pr_data.state)
    IN  IF merged_at # Absent THEN "merged"
        ELSE IF state = <<"o", "p", "e", "n">> THEN "open"
        ELSE IF state = <<"c", "l", "o", "s", "e", "d">> THEN "closed"
        ELSE "open"

\* PRInfo(number, state, merged_at, base_branch); title, url and author are
\* copied from the record and left out
_parse_pr_info(pr_data, base_branch) ==
    [number |-> pr_data.number,
     state |-> _parse_pr_state(pr_data),
     merged_at |->
        IF pr_data.pull_request_merged_at # Absent
        THEN pr_data.pull_request_merged_at
        ELSE IF pr_data.merged_at # Absent THEN pr_data.merged_at
        ELSE Absent,
     base_branch |->
        IF base_branch # "" THEN base_branch
        ELSE IF pr_data.base # "" THEN pr_data.base ELSE "unknown"]

InList(x, l) == \E i \in 1..Len(l) : l[i] = x

build_results_unlabelled(source_pr, branches, cp) ==
    [j \in 1..Len(branches) |->
        IF branches[j] \in DOMAIN cp
        THEN [source_pr |-> source_pr, target_branch |-> branches[j],
              status |-> "picked", related_pr |-> cp[branches[j]],
              detection_method |-> ""]
        ELSE [source_pr |-> source_pr, target_branch |-> branches[j],
              status |-> "not_picked", related_pr |-> NoPR,
              detection_method |-> ""]]

\* build_results walking target_branches from its end
build_results_backwards(source_pr, branches, cp) ==
    [j \in 1..Len(branches) |->
        LET branch == branches[Len(branches) + 1 - j]
        IN  IF branch \in DOMAIN cp
            THEN [source_pr |-> source_pr, target_branch |-> branch,
                  status |-> "picked", related_pr |-> cp[branch],
                  detection_method |-> "PR body reference"]
            ELSE [source_pr |-> source_pr, target_branch |-> branch,
                  status |-> "not_picked", related_pr |-> NoPR,
                  detection_method |-> ""]]

\* lines 243-264: one CherryPickResult for each entry of target_branches
build_results(source_pr, branches, cp) ==
    [j \in 1..Len(branches) |->
        IF branches[j] \in DOMAIN cp
        THEN [source_pr |-> source_pr, target_branch |-> branches[j],
              status |-> "picked", related_pr |-> cp[branches[j]],
              detection_method |-> "PR body reference"]
        ELSE [source_pr |-> source_pr, target_branch |-> branches[j],
              status |-> "not_picked", related_pr |-> NoPR,
              detection_method |-> ""]]

\* a visited hit and what was fetched for it
Visit(hit, pr_detail) == [number |-> hit.number, body |-> hit.body, detail |-> pr_detail]

branch_to_cp_keep_first(cp, pr_detail, branches) ==
    LET target_branch == pr_detail.base
    IN  IF InList(target_branch, branches) /\ target_branch \notin DOMAIN cp
        THEN (target_branch :> _parse_pr_info(pr_detail, target_branch)) @@ cp
        ELSE cp

\* branch_to_cp_after without the test of line 236
branch_to_cp_any_base(cp, pr_detail, branches) ==
    LET target_branch == pr_detail.base
    IN  (target_branch :> _parse_pr_info(pr_detail, target_branch)) @@ cp

\* lines 234-237: branch_to_cp after the detail of a candidate was fetched
branch_to_cp_after(cp, pr_detail, branches) ==
    LET target_branch == pr_detail.base
    IN  IF InList(target_branch, branches)
        THEN (target_branch :> _parse_pr_info(pr_detail, target_branch)) @@ cp
        ELSE cp

branch_to_cp_of_previous_pr == branch_to_cp

\* line 219: branch_to_cp: dict[str, PRInfo] = {}
branch_to_cp_new == <<>>

is_same_pr_never(hit, number) == FALSE

\* line 223: pr_data["number"] == source_pr.number
is_same_pr(hit, number) == hit.number = number

except_Exception_reraises(raised) == "raised"

\* `except Exception: continue` of lines 238-240: where _detect_for_pr goes on
\* after the detail fetch raised
except_Exception(raised) == "for_pr_data"

search_raised_returns_partial(partial) == [dpc |-> "returned", returned |-> partial]

\* an exception of search_related_prs leaves _detect_for_pr and
\* detect_cherry_picks (lines 216, 189): nothing is returned
search_raised(partial) == [dpc |-> "raised", returned |-> <<>>]

(* The runs that are followed: up to MaxSources source PRs numbered 1, 2,   *)
(* ..., up to MaxTargets target branches, up to MaxCands search hits for    *)
(* each source PR and up to MaxRetries waited-out rate limits in one call.  *)

MaxSources == 2
MaxTargets == 2
MaxCands == 2
MaxRetries == 1

TargetNames == {"2.4", "2.5"}
\* the base branches of the candidates: a requested branch or, when the
\* request leaves one of the two names out, a branch that was not requested
BaseRefs == TargetNames

RECURSIVE ListsOver(_, _)
ListsOver(S, k) ==
    IF k = 0 THEN {<<>>}
    ELSE LET shorter == ListsOver(S, k - 1)
         IN  shorter \cup {Append(l, x) : l \in shorter, x \in S}

\* the source PRs come from the search of get_user_prs: distinct PRs
SourceLists == {[i \in 1..n |-> i] : n \in 0..MaxSources}

\* search hits: PR 1 and PR 7 name both PR 1 and PR 2 as their source, PR 8
\* names PR 1 only
SearchHits ==
    {[number |-> 1, body |-> <<"p", "r", ":", " ", "#", "1", ",", " ", "p", "r", ":", " ", "#", "2">>],
     [number |-> 7, body |-> <<"p", "r", ":", " ", "#", "1", ",", " ", "p", "r", ":", " ", "#", "2">>],
     [number |-> 8, body |-> <<"B", "a", "c", "k", "p", "o", "r", "t", " ", "o", "f", " ", "#", "1">>]}

DetailsOf(number) ==
    {[number |-> number, base |-> b, state |-> <<"c", "l", "o", "s", "e", "d">>, merged_at |-> 900,
      pull_request_merged_at |-> Absent] : b \in BaseRefs}
    \cup
    {[number |-> number, base |-> b, state |-> <<"o", "p", "e", "n">>, merged_at |-> Absent,
      pull_request_merged_at |-> Absent] : b \in {"2.4"}}

\* a response that is waited out, and the responses that end a call
WaitedOutResponse ==
    [remaining |-> 0, reset |-> 1003, status |-> 403, items |-> <<>>,
     detail |-> NoDetail]
RateLimitedResponses ==
    {[remaining |-> 0, reset |-> rst, status |-> 403, items |-> <<>>,
      detail |-> NoDetail] : rst \in {1120, Absent}}
FailedResponse ==
    [remaining |-> 10, reset |-> 1003, status |-> 500, items |-> <<>>,
     detail |-> NoDetail]
OkResponses(itemLists, details) ==
    {[remaining |-> rem, reset |-> 1003, status |-> 200, items |-> l, detail |-> d] :
        rem \in {3, 10}, l \in itemLists, d \in details}

Scripts(last) ==
    {[i \in 1..(n + 1) |->
        [response |-> IF i <= n THEN WaitedOutResponse ELSE r, t |-> 1000]] :
        n \in 0..MaxRetries, r \in last}

SearchScripts ==
    Scripts(RateLimitedResponses \cup {FailedResponse}
            \cup OkResponses(ListsOver(SearchHits, MaxCands), {NoDetail}))

DetailScripts(number) ==
    Scripts(RateLimitedResponses \cup {FailedResponse}
            \cup OkResponses({<<>>}, DetailsOf(number)))

\* the outcomes of the two client calls, for each setting of auto_wait
SearchOutcomes ==
    [aw \in BOOLEAN |-> {search_related_prs(sc, aw) : sc \in SearchScripts}]
DetailOutcomes ==
    [aw \in BOOLEAN |->
        [h \in SearchHits |->
            {get_pr_details(sc, aw) : sc \in DetailScripts(h.number)}]]

\* lines 227-228 for each search hit and source PR number
is_reference_to ==
    [h \in SearchHits |->
        [n \in 1..MaxSources |-> _is_cherry_pick_reference(h.body, n)]]

pr == source_prs[pr_index]
pr_data == Head(related_prs)

\* the detector is given its client: cli builds it as GitHubClient(token),
\* a caller of the library may pass auto_wait=False
InitDetect ==
    /\ source_prs \in SourceLists
    /\ target_branches \in ListsOver(TargetNames, MaxTargets)
    /\ dpc = "for_pr"
    /\ pr_index = 1
    /\ related_prs = <<>>
    /\ branch_to_cp = <<>>
    /\ results = <<>>
    /\ visited = <<>>
    /\ detect_returned = <<>>
    /\ client_error = NoError
    /\ cli_printed = <<>>
    /\ exit_code = Absent
    /\ ClientAtRest
    /\ auto_wait \in BOOLEAN
    /\ MatcherIdle
    /\ BranchIdle
    /\ FilterIdle
    /\ ParseIdle

\* line 216: related_prs = self.client.search_related_prs(...); line 219
SearchRelated ==
    /\ dpc = "for_pr"
    /\ pr_index <= Len(source_prs)
    /\ \E o \in SearchOutcomes[auto_wait] :
          /\ o.kind = "return"
          /\ related_prs' = o.value
    /\ branch_to_cp' = branch_to_cp_new
    /\ visited' = <<>>
    /\ client_error' = NoError
    /\ dpc' = "for_pr_data"
    /\ UNCHANGED <<source_prs, target_branches, pr_index, results, detect_returned,
                   cli_printed, exit_code>>
    /\ UNCHANGED <<clientVars, matcherVars, branchVars, filterVars, parseVars>>

\* line 216 raises: the exception leaves detect_cherry_picks
SearchRaises ==
    /\ dpc = "for_pr"
    /\ pr_index <= Len(source_prs)
    /\ \E o \in SearchOutcomes[auto_wait] :
          /\ o.kind = "raise"
          /\ client_error' = o.raised
    /\ dpc' = search_raised(results).dpc
    /\ detect_returned' = search_raised(results).returned
    /\ UNCHANGED <<visited, source_prs, target_branches, pr_index, related_prs, branch_to_cp,
                   results, cli_printed, exit_code>>
    /\ UNCHANGED <<clientVars, matcherVars, branchVars, filterVars, parseVars>>

\* lines 223-224: the hit is the source PR itself
SkipSamePR ==
    /\ dpc = "for_pr_data"
    /\ related_prs # <<>>
    /\ is_same_pr(pr_data, pr)
    /\ visited' = Append(visited, Visit(pr_data, NoDetail))
    /\ related_prs' = Tail(related_prs)
    /\ client_error' = NoError
    /\ UNCHANGED <<source_prs, target_branches, dpc, pr_index, branch_to_cp, results,
                   detect_returned, cli_printed, exit_code>>
    /\ UNCHANGED <<clientVars, matcherVars, branchVars, filterVars, parseVars>>

\* lines 227-229: the body does not name the source PR
SkipNotReference ==
    /\ dpc = "for_pr_data"
    /\ related_prs # <<>>
    /\ ~is_same_pr(pr_data, pr)
    /\ ~is_reference_to[pr_data][pr]
    /\ visited' = Append(visited, Visit(pr_data, NoDetail))
    /\ related_prs' = Tail(related_prs)
    /\ client_error' = NoError
    /\ UNCHANGED <<source_prs, target_branches, dpc, pr_index, branch_to_cp, results,
                   detect_returned, cli_printed, exit_code>>
    /\ UNCHANGED <<clientVars, matcherVars, branchVars, filterVars, parseVars>>

\* lines 232-237: the detail is fetched and its base branch looked up
DetailFetched ==
    /\ dpc = "for_pr_data"
    /\ related_prs # <<>>
    /\ ~is_same_pr(pr_data, pr)
    /\ is_reference_to[pr_data][pr]
    /\ \E o \in DetailOutcomes[auto_wait][pr_data] :
          /\ o.kind = "return"
          /\ LET pr_detail == o.value
             IN  /\ branch_to_cp' =
                       branch_to_cp_after(branch_to_cp, pr_detail, target_branches)
                 /\ visited' = Append(visited, Visit(pr_data, pr_detail))
    /\ related_prs' = Tail(related_prs)
    /\ client_error' = NoError
    /\ UNCHANGED <<source_prs, target_branches, dpc, pr_index, results,
                   detect_returned, cli_printed, exit_code>>
    /\ UNCHANGED <<clientVars, matcherVars, branchVars, filterVars, parseVars>>

\* lines 232-240: the detail fetch raises and the except clause takes over
DetailFailed ==
    /\ dpc = "for_pr_data"
    /\ related_prs # <<>>
    /\ ~is_same_pr(pr_data, pr)
    /\ is_reference_to[pr_data][pr]
    /\ \E o \in DetailOutcomes[auto_wait][pr_data] :
          /\ o.kind = "raise"
          /\ client_error' = o.raised
          /\ dpc' = except_Exception(o.raised)
    /\ visited' = Append(visited, Visit(pr_data, NoDetail))
    /\ related_prs' = IF dpc' = "for_pr_data" THEN Tail(related_prs) ELSE related_prs
    /\ UNCHANGED <<source_prs, target_branches, pr_index, branch_to_cp, results,
                   detect_returned, cli_printed, exit_code>>
    /\ UNCHANGED <<clientVars, matcherVars, branchVars, filterVars, parseVars>>

\* lines 243-264, then results.extend(pr_results) of line 190
BuildResults ==
    /\ dpc = "for_pr_data"
    /\ related_prs = <<>>
    /\ results' = results \o build_results(pr, target_branches, branch_to_cp)
    /\ visited' = <<>>
    /\ pr_index' = pr_index + 1
    /\ client_error' = NoError
    /\ dpc' = "for_pr"
    /\ UNCHANGED <<source_prs, target_branches, related_prs, branch_to_cp,
                   detect_returned, cli_printed, exit_code>>
    /\ UNCHANGED <<clientVars, matcherVars, branchVars, filterVars, parseVars>>

\* line 197: return results
ReturnResults ==
    /\ dpc = "for_pr"
    /\ pr_index > Len(source_prs)
    /\ detect_returned' = results
    /\ dpc' = "returned"
    /\ UNCHANGED <<visited, source_prs, target_branches, pr_index, related_prs, branch_to_cp,
                   results, client_error, cli_printed, exit_code>>
    /\ UNCHANGED <<clientVars, matcherVars, branchVars, filterVars, parseVars>>

\* cli.py lines 145-151: print_results_table(results, console)
CliPrintResults ==
    /\ dpc = "returned"
    /\ cli_printed' = detect_returned
    /\ dpc' = "printed"
    /\ UNCHANGED <<visited, source_prs, target_branches, pr_index, related_prs, branch_to_cp,
                   results, detect_returned, client_error, exit_code>>
    /\ UNCHANGED <<clientVars, matcherVars, branchVars, filterVars, parseVars>>

\* cli.py lines 153-162: the error is printed, raise SystemExit(1)
CliReportError ==
    /\ dpc = "raised"
    /\ exit_code' = 1
    /\ dpc' = "exited"
    /\ UNCHANGED <<visited, source_prs, target_branches, pr_index, related_prs, branch_to_cp,
                   results, detect_returned, client_error, cli_printed>>
    /\ UNCHANGED <<clientVars, matcherVars, branchVars, filterVars, parseVars>>

Next ==
    \/ SearchRelated
    \/ SearchRaises
    \/ SkipSamePR
    \/ SkipNotReference
    \/ DetailFetched
    \/ DetailFailed
    \/ BuildResults
    \/ ReturnResults
    \/ CliPrintResults
    \/ CliReportError

Init == InitDetect

Spec == Init /\ [][Next]_vars

----------------------------------------------------------------------------
(* Properties of a detection pass. *)

\* the results of the returned list that are for one source PR and one branch
ResultsFor(l, source_pr, branch) ==
    {k \in 1..Len(l) : l[k].source_pr = source_pr /\ l[k].target_branch = branch}

\* C1: a pass that completes over N source PRs and M requested target branches
\* returns N*M results, exactly one for each (source PR, target branch) pair:
\* no pair is missing and no pair is repeated.
C1_OneResultPerPair ==
    dpc = "returned" =>
        /\ Len(detect_returned) = Len(source_prs) * Len(target_branches)
        /\ \A i \in 1..Len(source_prs) : \A j \in 1..Len(target_branches) :
              Cardinality(ResultsFor(detect_returned, source_prs[i],
                                     target_branches[j])) = 1

\* a step of the pass in which a client call raised the rate-limit error
RateLimitRaised ==
    /\ dpc \in {"for_pr", "for_pr_data"}
    /\ client_error'.type = "RateLimitError"

FatalRateLimitStep ==
    RateLimitRaised => dpc' = "raised" /\ detect_returned' = <<>>

\* C5: a rate-limit error raised by any client call of the pass, the detail
\* fetch of a candidate included, aborts the pass: the error leaves
\* detect_cherry_picks and no result list is returned.
C5_RateLimitIsFatal == [][FatalRateLimitStep]_vars

\* a step in which the detail fetch of an accepted candidate raised
DetailFetchRaised ==
    /\ dpc = "for_pr_data"
    /\ client_error'.type # "none"

DropCandidateStep ==
    /\ DetailFetchRaised =>
          /\ dpc' = "for_pr_data"
          /\ related_prs' = Tail(related_prs)
          /\ pr_index' = pr_index
          /\ branch_to_cp' = branch_to_cp
          /\ results' = results
          /\ detect_returned' = detect_returned
    /\ (dpc = "for_pr_data" /\ dpc' = "for_pr") =>
          /\ Len(results') = Len(results) + Len(target_branches)
          /\ \A j \in 1..Len(target_branches) :
                results'[Len(results) + j].target_branch = target_branches[j]
          /\ pr_index' = pr_index + 1

\* C6: when the detail fetch of an accepted candidate fails, that candidate
\* alone is dropped: the pass stays in the candidate loop with the remaining
\* candidates, the mapping and the results so far untouched, nothing is
\* raised to the caller, and the source PR still gets one result for each
\* requested branch before the pass moves to the next source PR.
C6_DetailFailureDropsCandidate == [][DropCandidateStep]_vars

\* the detail fetch of a candidate has just failed while another candidate and
\* another source PR remain
C6_Witness ==
    /\ dpc = "for_pr_data"
    /\ client_error.type = "HTTPStatusError"
    /\ related_prs # <<>>
    /\ pr_index < Len(source_prs)
    /\ Len(target_branches) > 0

\* C7: a pass returns the full result list or nothing: when the search for a
\* source PR raises (HTTP error or rate limit), nothing is returned and
\* nothing is printed, whatever was accumulated for earlier source PRs.
C7_NoPartialResults ==
    /\ dpc \in {"raised", "exited"} => detect_returned = <<>> /\ cli_printed = <<>>
    /\ dpc \in {"for_pr", "for_pr_data"} => detect_returned = <<>>
    /\ dpc \in {"returned", "printed"} =>
          Len(detect_returned) = Len(source_prs) * Len(target_branches)

\* the search for the second source PR raised after the first one got results
C7_Witness ==
    /\ dpc = "raised"
    /\ pr_index = 2
    /\ Len(results) > 0
    /\ client_error.type \in {"HTTPStatusError", "RateLimitError"}

WellFormedResult(r) ==
    /\ (r.related_pr # NoPR) <=> (r.status = "picked")
    /\ r.status = "picked" => r.detection_method = "PR body reference"
    /\ r.status = "not_picked" => r.related_pr = NoPR
    /\ r.status \in {"picked", "not_picked"}

\* C9: in every result of a pass the related PR is present exactly when the
\* status is picked; a picked result is labelled "PR body reference" and a
\* not-picked result has no related PR.
C9_RelatedIffPicked ==
    /\ \A k \in 1..Len(results) : WellFormedResult(results[k])
    /\ \A k \in 1..Len(detect_returned) : WellFormedResult(detect_returned[k])

\* a returned list with a picked and a not-picked result
C9_Witness ==
    /\ dpc = "returned"
    /\ \E k \in 1..Len(detect_returned) :
          /\ detect_returned[k].status = "picked"
          /\ detect_returned[k].related_pr.number = 7
    /\ \E k \in 1..Len(detect_returned) : detect_returned[k].status = "not_picked"

\* the visits of the current source PR whose fetched detail names branch b
ResolvedTo(b) ==
    {i \in 1..Len(visited) : visited[i].detail # NoDetail /\ visited[i].detail.base = b}

LastOf(S) == CHOOSE i \in S : \A m \in S : m <= i

\* the lifecycle state a fetched detail shows
ShownState(d) ==
    IF d.pull_request_merged_at # Absent \/ d.merged_at # Absent THEN "merged"
    ELSE IF d.state = <<"c", "l", "o", "s", "e", "d">> THEN "closed"
    ELSE "open"

LastCandidateKept ==
    dpc = "for_pr_data" =>
        \A j \in 1..Len(target_branches) :
            LET b == target_branches[j]
            IN  /\ b \in DOMAIN branch_to_cp <=> ResolvedTo(b) # {}
                /\ ResolvedTo(b) # {} =>
                      LET last == visited[LastOf(ResolvedTo(b))]
                      IN  /\ branch_to_cp[b].number = last.number
                          /\ branch_to_cp[b].state = ShownState(last.detail)

ResultsFromMapping ==
    (dpc = "for_pr_data" /\ dpc' = "for_pr") =>
        \A j \in 1..Len(target_branches) :
            target_branches[j] \in DOMAIN branch_to_cp =>
                results'[Len(results) + j].related_pr = branch_to_cp[target_branches[j]]

\* C19: when several accepted candidates of one source PR resolve to the same
\* requested branch, the mapping, and with it the related PR of that branch's
\* result, is the candidate visited last in search-result order, whatever
\* its state (merged, open or closed).
C19_LastCandidateWins == []LastCandidateKept /\ [][ResultsFromMapping]_vars

\* PR 7 (merged) and then PR 8 (open) resolved to "2.4": the mapping holds
\* the open PR 8
C19_Witness ==
    /\ dpc = "for_pr_data"
    /\ Len(visited) = 2
    /\ visited[1].number = 7
    /\ visited[1].detail # NoDetail
    /\ visited[1].detail.base = "2.4"
    /\ ShownState(visited[1].detail) = "merged"
    /\ visited[2].number = 8
    /\ "2.4" \in DOMAIN branch_to_cp
    /\ branch_to_cp["2.4"].number = 8
    /\ branch_to_cp["2.4"].state = "open"

\* visit i of the current source PR found a qualifying candidate for branch b
Qualifies(i, b) ==
    /\ visited[i].number # pr
    /\ is_reference_to[[number |-> visited[i].number, body |-> visited[i].body]][pr]
    /\ visited[i].detail # NoDetail
    /\ visited[i].detail.base = b

PickedSoFar(b) == b \in DOMAIN branch_to_cp

PairStateStep ==
    \* the pairs of a source PR start not picked
    /\ (dpc = "for_pr" /\ dpc' = "for_pr_data") =>
          \A j \in 1..Len(target_branches) : ~PickedSoFar(target_branches[j])'
    \* within a source PR a picked pair stays picked
    /\ (dpc = "for_pr_data" /\ dpc' = "for_pr_data") =>
          \A j \in 1..Len(target_branches) :
              PickedSoFar(target_branches[j]) => PickedSoFar(target_branches[j])'
    \* the result of a pair is picked iff a qualifying candidate was found
    /\ (dpc = "for_pr_data" /\ dpc' = "for_pr") =>
          \A j \in 1..Len(target_branches) :
              results'[Len(results) + j].status = "picked"
                  <=> \E i \in 1..Len(visited) : Qualifies(i, target_branches[j])
    \* the results of the source PRs done are never changed
    /\ Len(results') >= Len(results)
    /\ \A k \in 1..Len(results) : results'[k] = results[k]

\* C20: the pairs of a source PR start not picked; a pair becomes picked
\* exactly when a qualifying candidate is found while its source PR is
\* processed (a hit other than the source PR, accepted by the matcher, whose
\* detail was fetched and names the branch); a picked pair stays picked, and
\* the results of one source PR are not changed by another.
C20_PairStateModel == [][PairStateStep]_vars

\* the first source PR got a picked result and the second is being processed
C20_Witness ==
    /\ dpc = "for_pr_data"
    /\ pr_index = 2
    /\ visited # <<>>
    /\ \E k \in 1..Len(results) :
          results[k].status = "picked" /\ results[k].source_pr = 1
    /\ \E k \in 1..Len(results) : results[k].status = "not_picked"

\* the hit about to be visited is the source PR itself
VisitingSourcePR ==
    /\ dpc = "for_pr_data"
    /\ related_prs # <<>>
    /\ Head(related_prs).number = source_prs[pr_index]

SourceNeverCandidateStep ==
    VisitingSourcePR =>
        /\ client_error' = NoError
        /\ visited' = Append(visited, [number |-> Head(related_prs).number,
                                       body |-> Head(related_prs).body,
                                       detail |-> NoDetail])
        /\ branch_to_cp' = branch_to_cp
        /\ results' = results
        /\ dpc' = "for_pr_data"

SourceNeverRelated ==
    /\ \A k \in 1..Len(results) : results[k].related_pr.number # results[k].source_pr
    /\ dpc = "for_pr_data" =>
          \A b \in DOMAIN branch_to_cp : branch_to_cp[b].number # source_prs[pr_index]

\* C21: the source PR is never a candidate of its own: when the search
\* result holds the source PR, no detail is fetched for it (no client call,
\* nothing fetched, nothing raised), the mapping is left alone, and no result
\* of a source PR has that PR as its related PR.
C21_SourceNeverCandidate == []SourceNeverRelated /\ [][SourceNeverCandidateStep]_vars

\* PR 1, whose body names PR 1, was visited for source PR 1 with "2.4"
\* requested and was skipped
C21_Witness ==
    /\ dpc = "for_pr_data"
    /\ pr_index = 1
    /\ InList("2.4", target_branches)
    /\ visited # <<>>
    /\ visited[Len(visited)].number = 1
    /\ is_reference_to[[number |-> 1, body |-> visited[Len(visited)].body]][1]
    /\ visited[Len(visited)].detail = NoDetail
    /\ client_error = NoError

\* every Picked result of l names a related PR based on its own target branch,
\* which is a requested one
PickedOnRequestedBase(l) ==
    \A k \in 1..Len(l) :
        l[k].status = "picked" =>
            /\ l[k].related_pr.base_branch = l[k].target_branch
            /\ InList(l[k].target_branch, target_branches)

\* the detail of an accepted candidate was fetched in this step and its base
\* branch is not a requested one
FetchedUnrequestedBase ==
    /\ dpc = "for_pr_data"
    /\ Len(visited') = Len(visited) + 1
    /\ visited'[Len(visited')].detail # NoDetail
    /\ ~InList(visited'[Len(visited')].detail.base, target_branches)

UnrequestedBaseStep ==
    FetchedUnrequestedBase => branch_to_cp' = branch_to_cp /\ results' = results

\* C25: in every Picked result the related PR's base branch is the result's
\* target branch and that branch is a requested one; an accepted candidate
\* whose fetched base branch is not requested changes no result.
C25_PickedOnlyOnRequestedBase ==
    /\ [](PickedOnRequestedBase(results) /\ PickedOnRequestedBase(detect_returned))
    /\ [](\A b \in DOMAIN branch_to_cp :
              InList(b, target_branches) /\ branch_to_cp[b].base_branch = b)
    /\ [][UnrequestedBaseStep]_vars

\* only "2.4" is requested: the first source PR got a Picked result from a
\* candidate based on it, and for the second an accepted candidate based on
\* "2.5" was fetched and left the mapping empty
C25_Witness ==
    /\ dpc = "for_pr_data"
    /\ target_branches = <<"2.4">>
    /\ pr_index = 2
    /\ results[1].status = "picked"
    /\ results[1].related_pr.base_branch = "2.4"
    /\ visited # <<>>
    /\ visited[Len(visited)].detail # NoDetail
    /\ visited[Len(visited)].detail.base = "2.5"
    /\ branch_to_cp = <<>>

\* the results of l stand source PR by source PR and, within one, branch by branch
OrderedByInput(l) ==
    LET M == Len(target_branches)
    IN  \A k \in 1..Len(l) :
            /\ M > 0
            /\ ((k - 1) \div M) + 1 <= Len(source_prs)
            /\ l[k].source_pr = source_prs[((k - 1) \div M) + 1]
            /\ l[k].target_branch = target_branches[((k - 1) % M) + 1]

\* C26: the result list is ordered by source PR in input order and, within a
\* source PR, by target branch in requested order: with M requested branches
\* the result at index i*M + j (from 0) is for source PR i and branch j.
C26_ResultsInInputOrder ==
    /\ OrderedByInput(results)
    /\ dpc \in {"for_pr", "for_pr_data"} =>
          Len(results) = (pr_index - 1) * Len(target_branches)
    /\ dpc = "returned" =>
          /\ OrderedByInput(detect_returned)
          /\ Len(detect_returned) = Len(source_prs) * Len(target_branches)

\* two source PRs and two different requested branches, the pass returned
C26_Witness ==
    /\ dpc = "returned"
    /\ Len(source_prs) = 2
    /\ source_prs[1] # source_prs[2]
    /\ target_branches = <<"2.5", "2.4">>
    /\ Len(detect_returned) = 4
    /\ detect_returned[3].source_pr = source_prs[2]
    /\ detect_returned[3].target_branch = "2.5"

----------------------------------------------------------------------------
(* cherry_pick_detector.py: _parse_pr_state and _parse_pr_info, one call on a
   fetched record. *)

\* largest PR number of a record
MaxNumber == 2

\* the `state` field of a record: lower and upper case, missing (<<>>) and a
\* word the code does not know
StateFields ==
    {<<"o", "p", "e", "n">>, <<"c", "l", "o", "s", "e", "d">>,
     <<"O", "P", "E", "N">>, <<"C", "l", "o", "s", "e", "d">>,
     <<>>, <<"d", "r", "a", "f", "t">>}

\* merged_at of a record and of its pull_request sub-object
MergedAtFields == {Absent, 900}
SubObjectMergedAtFields == {Absent, 800}

\* base.ref of a record ("": missing) and the override argument ("": None)
BaseFields == {""} \cup TargetNames
BaseOverrides == {""} \cup TargetNames

FetchedRecords ==
    {[number |-> n, base |-> b, state |-> st, merged_at |-> ma,
      pull_request_merged_at |-> pm] :
        n \in 1..MaxNumber, b \in BaseFields, st \in StateFields,
        ma \in MergedAtFields, pm \in SubObjectMergedAtFields}

InitParse ==
    /\ parse_data \in FetchedRecords
    /\ parse_base \in BaseOverrides
    /\ ppc = "call"
    /\ parsed = NoPR
    /\ ClientIdle
    /\ MatcherIdle
    /\ BranchIdle
    /\ DetectIdle
    /\ FilterIdle

\* one call of _parse_pr_info
ParsePRInfo ==
    /\ ppc = "call"
    /\ parsed' = _parse_pr_info(parse_data, parse_base)
    /\ ppc' = "returned"
    /\ UNCHANGED <<parse_data, parse_base>>
    /\ UNCHANGED <<clientVars, matcherVars, branchVars, detectVars, filterVars>>

SpecParse == InitParse /\ [][ParsePRInfo]_vars

(* Properties of _parse_pr_info (SpecParse). *)

\* the record carries a merge timestamp, its own or its sub-object's
CarriesMergeTimestamp ==
    parse_data.merged_at # Absent \/ parse_data.pull_request_merged_at # Absent

\* C24: a PullRequestInfo built from a fetched record has a merge timestamp
\* if and only if its state is Merged; the state is Merged exactly when the
\* record carries a merge timestamp, its own or its pull-request
\* sub-object's, and otherwise it is Open or Closed with no merge timestamp.
C24_MergedIffTimestamp ==
    ppc = "returned" =>
        /\ parsed.merged_at # Absent <=> parsed.state = "merged"
        /\ parsed.state = "merged" <=> CarriesMergeTimestamp
        /\ parsed.state # "merged" =>
              parsed.state \in {"open", "closed"} /\ parsed.merged_at = Absent
        /\ parsed.merged_at # Absent =>
              parsed.merged_at \in {parse_data.merged_at,
                                    parse_data.pull_request_merged_at}

\* a closed record whose merge timestamp stands only under the sub-object
C24_Witness ==
    /\ ppc = "returned"
    /\ parse_data.state = <<"c", "l", "o", "s", "e", "d">>
    /\ parse_data.merged_at = Absent
    /\ parse_data.pull_request_merged_at = 800
    /\ parsed.state = "merged"
    /\ parsed.merged_at = 800

----------------------------------------------------------------------------
(* branch_detector.py: filter_branches. *)

\* set(all_branches)
set(l) == {l[i] : i \in 1..Len(l)}

filter_branches_in_repository_order(all, targets) ==
    SelectSeq(all, LAMBDA b : b \in set(targets))

\* lines 105-106
filter_branches(all, targets) ==
    LET all_set == set(all)
    IN  SelectSeq(targets, LAMBDA b : b \in all_set)

(* The calls of filter_branches that are followed: the names of the         *)
(* repository as for detect_release_branches, and at most MaxRequested      *)
(* requested names, "2.6" being a name no repository of the model has; the  *)
(* user may give a name twice.                                              *)

MaxRequested == 3

RequestedNames == {<<"2", ".", "4">>, <<"2", ".", "9">>, <<"2", ".", "6">>}

InitFilter ==
    /\ repo_branches \in BranchLists(MaxBranches)
    /\ target \in ListsOver(RequestedNames, MaxRequested)
    /\ fpc = "call"
    /\ filtered = <<>>
    /\ ClientIdle
    /\ MatcherIdle
    /\ BranchIdle
    /\ DetectIdle
    /\ ParseIdle

\* one call of filter_branches (cli.py line 121)
FilterBranches ==
    /\ fpc = "call"
    /\ filtered' = filter_branches(repo_branches, target)
    /\ fpc' = "returned"
    /\ UNCHANGED <<repo_branches, target>>
    /\ UNCHANGED <<clientVars, matcherVars, branchVars, detectVars, parseVars>>

SpecFilter == InitFilter /\ [][FilterBranches]_vars

(* Properties of filter_branches (SpecFilter). *)

\* the positions of the requested list whose name the repository has
ExistingPositions == {i \in 1..Len(target) : target[i] \in Elements(repo_branches)}

\* the k-th smallest member of a set of positions
Kth(S, k) == CHOOSE i \in S : Cardinality({j \in S : j < i}) = k - 1

\* C13: filter_branches returns exactly the entries of the requested list
\* that the repository has, in the order of the requested list; requested
\* names that do not exist are dropped and no other name is added.
C13_FilterKeepsRequestedOrder ==
    fpc = "returned" =>
        /\ Len(filtered) = Cardinality(ExistingPositions)
        /\ \A k \in 1..Len(filtered) : filtered[k] = target[Kth(ExistingPositions, k)]

\* "2.9" is requested before the missing "2.6" and "2.4", the repository
\* lists "2.4" before "2.9"
C13_Witness ==
    /\ fpc = "returned"
    /\ target = <<<<"2", ".", "9">>, <<"2", ".", "6">>, <<"2", ".", "4">>>>
    /\ {<<"2", ".", "4">>, <<"2", ".", "9">>} \subseteq Elements(repo_branches)
    /\ IndexOf(repo_branches, <<"2", ".", "4">>) < IndexOf(repo_branches, <<"2", ".", "9">>)
    /\ filtered = <<<<"2", ".", "9">>, <<"2", ".", "4">>>>

====
